---------------------------- MODULE Spec2Model ----------------------------
(* Locohost (src/server.js): the process discovery and enrichment pipeline, *)
(* the process terminator and the HTTP request handler, as a state machine. *)
(* JavaScript strings are TLA+ strings, taken apart character by character  *)
(* with Len, SubSeq and \o; every await of the source is a point where the  *)
(* handlers of other requests may run.                                      *)
EXTENDS Integers, Sequences, FiniteSets, TLC

(***************************************************************************)
(* Strings                                                                 *)
(***************************************************************************)
Char(s, i) == SubSeq(s, i, i)

Digits == {"0", "1", "2", "3", "4", "5", "6", "7", "8", "9"}

IsSpace(c) == c \in {" ", "\n", "\t"}

DigitVal(c) ==
    CASE c = "0" -> 0 [] c = "1" -> 1 [] c = "2" -> 2 [] c = "3" -> 3
      [] c = "4" -> 4 [] c = "5" -> 5 [] c = "6" -> 6 [] c = "7" -> 7
      [] c = "8" -> 8 [] c = "9" -> 9

DigitChar(d) ==
    CASE d = 0 -> "0" [] d = 1 -> "1" [] d = 2 -> "2" [] d = 3 -> "3"
      [] d = 4 -> "4" [] d = 5 -> "5" [] d = 6 -> "6" [] d = 7 -> "7"
      [] d = 8 -> "8" [] d = 9 -> "9"

\* s.includes(lit) from position i on: the least index >= i where lit occurs, 0 if none
RECURSIVE IndexFrom(_, _, _)
IndexFrom(s, lit, i) ==
    IF i + Len(lit) - 1 > Len(s) THEN 0
    ELSE IF SubSeq(s, i, i + Len(lit) - 1) = lit THEN i
    ELSE IndexFrom(s, lit, i + 1)

Includes(s, lit) == IndexFrom(s, lit, 1) # 0

StartsWith(s, lit) == Len(lit) <= Len(s) /\ SubSeq(s, 1, Len(lit)) = lit

\* String.prototype.replace(lit, ''): the first occurrence only
ReplaceFirst(s, lit) ==
    LET i == IndexFrom(s, lit, 1)
    IN  IF i = 0 THEN s
        ELSE SubSeq(s, 1, i - 1) \o SubSeq(s, i + Len(lit), Len(s))

RECURSIVE TrimStart(_)
TrimStart(s) ==
    IF s # "" /\ IsSpace(Char(s, 1)) THEN TrimStart(SubSeq(s, 2, Len(s))) ELSE s

RECURSIVE TrimEnd(_)
TrimEnd(s) ==
    IF s # "" /\ IsSpace(Char(s, Len(s))) THEN TrimEnd(SubSeq(s, 1, Len(s) - 1)) ELSE s

\* String.prototype.trim
Trim(s) == TrimEnd(TrimStart(s))

\* String.prototype.split(sep) for a one-character separator
RECURSIVE Split(_, _)
Split(s, sep) ==
    LET i == IndexFrom(s, sep, 1)
    IN  IF i = 0 THEN <<s>>
        ELSE <<SubSeq(s, 1, i - 1)>> \o Split(SubSeq(s, i + 1, Len(s)), sep)

\* Array.prototype.join(sep)
RECURSIVE Join(_, _)
Join(parts, sep) ==
    IF parts = <<>> THEN ""
    ELSE IF Len(parts) = 1 THEN parts[1]
    ELSE parts[1] \o sep \o Join(Tail(parts), sep)

\* the length of the longest prefix of s made of characters satisfying in/out of set cs
RECURSIVE RunLen(_, _, _)
RunLen(s, cs, inside) ==
    IF s = "" \/ ((Char(s, 1) \in cs) # inside) THEN 0
    ELSE 1 + RunLen(SubSeq(s, 2, Len(s)), cs, inside)

\* line.split(/\s+/): split on runs of whitespace
RECURSIVE SplitWS(_)
SplitWS(s) ==
    LET n == RunLen(s, {" ", "\n", "\t"}, FALSE)
        rest == SubSeq(s, n + 1, Len(s))
        w == RunLen(rest, {" ", "\n", "\t"}, TRUE)
    IN  IF rest = "" THEN <<s>>
        ELSE <<SubSeq(s, 1, n)>> \o SplitWS(SubSeq(rest, w + 1, Len(rest)))

\* Array.prototype.filter(Boolean) on strings: the empty string is falsy
RECURSIVE FilterNonEmpty(_)
FilterNonEmpty(parts) ==
    IF parts = <<>> THEN <<>>
    ELSE (IF parts[1] = "" THEN <<>> ELSE <<parts[1]>>) \o FilterNonEmpty(Tail(parts))

(***************************************************************************)
(* Numbers: a JavaScript number is [nan, val]                              *)
(***************************************************************************)
NaN == [nan |-> TRUE, val |-> 0]

Num(n) == [nan |-> FALSE, val |-> n]

RECURSIVE DigitsVal(_, _)
DigitsVal(s, acc) ==
    IF s = "" THEN acc
    ELSE DigitsVal(SubSeq(s, 2, Len(s)), acc * 10 + DigitVal(Char(s, 1)))

\* parseInt(s, 10): leading whitespace, an optional sign, then the leading digits
ParseInt(s) ==
    LET t == TrimStart(s)
        neg == t # "" /\ Char(t, 1) = "-"
        signed == t # "" /\ Char(t, 1) \in {"-", "+"}
        u == IF signed THEN SubSeq(t, 2, Len(t)) ELSE t
        n == RunLen(u, Digits, TRUE)
        v == DigitsVal(SubSeq(u, 1, n), 0)
    IN  IF n = 0 THEN NaN ELSE Num(IF neg THEN 0 - v ELSE v)

RECURSIVE NatToString(_)
NatToString(n) ==
    IF n < 10 THEN DigitChar(n) ELSE NatToString(n \div 10) \o DigitChar(n % 10)

\* `${x}` for a number
NumToString(x) ==
    IF x.nan THEN "NaN"
    ELSE IF x.val < 0 THEN "-" \o NatToString(0 - x.val)
    ELSE NatToString(x.val)

(***************************************************************************)
(* External Tracker Bridge: getConductorWorkspaces                         *)
(***************************************************************************)
Null == "null"

\* the value of a null snapshot, and of a Map keyed by directory_name
NullSnapshot == [isNull |-> TRUE, map |-> <<>>]

\* lookup.set(ws.directory_name, {id, state}) for each row in order: the last row wins
BuildLookup(rows) ==
    [d \in {rows[i].directory_name : i \in DOMAIN rows} |->
        LET last == CHOOSE i \in DOMAIN rows :
                        /\ rows[i].directory_name = d
                        /\ \A j \in DOMAIN rows : rows[j].directory_name = d => j <= i
        IN  [id |-> rows[last].id, state |-> rows[last].state]]

\* db: [exists, ok, kind, rows], what the file system and the sqlite3 query answer
GetConductorWorkspaces(db) ==
    IF ~db.exists THEN NullSnapshot
    ELSE IF ~db.ok THEN NullSnapshot
    ELSE IF db.kind = "blank" THEN NullSnapshot
    ELSE IF db.kind = "malformed" THEN NullSnapshot
    ELSE [isNull |-> FALSE, map |-> BuildLookup(db.rows)]

(***************************************************************************)
(* Socket Enumerator: one line of the lsof listing                         *)
(***************************************************************************)
\* name.match(/:(\d+)$/): the digits after the last ':' when they end the name, else ""
PortMatch(name) ==
    LET k == CHOOSE n \in 0..Len(name) :
                 /\ \A i \in (Len(name) - n + 1)..Len(name) : Char(name, i) \in Digits
                 /\ (n < Len(name) => Char(name, Len(name) - n) \notin Digits)
    IN  IF k >= 1 /\ k < Len(name) /\ Char(name, Len(name) - k) = ":"
        THEN SubSeq(name, Len(name) - k + 1, Len(name))
        ELSE ""

\* a plausible slip: the key leaves the port out
KeyOf_PidOnly(pidNum, port) == NumToString(pidNum)

\* `${pidNum}-${port}`
KeyOf(pidNum, port) == NumToString(pidNum) \o "-" \o NumToString(port)

\* lines 63-76: [skip |-> TRUE] for a line the loop passes over, else its fields
ParseLine(line) ==
    LET parts == SplitWS(line)
    IN  IF Len(parts) < 9 THEN [skip |-> TRUE]
        ELSE IF PortMatch(parts[9]) = "" THEN [skip |-> TRUE]
        ELSE LET port == ParseInt(PortMatch(parts[9]))
                 pidNum == ParseInt(parts[2])
             IN  [skip |-> FALSE, command |-> parts[1], pidNum |-> pidNum,
                  port |-> port, key |-> KeyOf(pidNum, port)]

\* stdout.trim().split('\n').filter(Boolean)
LinesOf(stdout) == FilterNonEmpty(Split(Trim(stdout), "\n"))

(***************************************************************************)
(* Workspace Metadata Resolver                                             *)
(***************************************************************************)
\* line 88: cwdOutput.replace(/^n/, '').replace('cwd', '').trim()
PrimaryCwd(cwdOutput) ==
    LET a == IF StartsWith(cwdOutput, "n") THEN SubSeq(cwdOutput, 2, Len(cwdOutput))
             ELSE cwdOutput
    IN  Trim(ReplaceFirst(a, "cwd"))

\* line 94: pwdOutput.trim()
FallbackCwd(pwdOutput) == Trim(pwdOutput)

\* a plausible slip: the pattern leaves the namespace segment out
ConductorPrefix_AnyNamespace == "/workspaces/"

ConductorPrefix == "/conductor/workspaces/"

\* cwd.match(/\/conductor\/workspaces\/([^/]+)\/([^/]+)/), tried from position i on:
\* the leftmost place where the literal is followed by two non-empty segments
RECURSIVE MatchFrom(_, _)
MatchFrom(cwd, i) ==
    LET j == IndexFrom(cwd, ConductorPrefix, i)
        rest == SubSeq(cwd, j + Len(ConductorPrefix), Len(cwd))
        n1 == RunLen(rest, {"/"}, FALSE)
        rest2 == SubSeq(rest, n1 + 2, Len(rest))
        n2 == RunLen(rest2, {"/"}, FALSE)
    IN  IF j = 0 THEN [matched |-> FALSE, g1 |-> "", g2 |-> ""]
        ELSE IF n1 >= 1 /\ n1 < Len(rest) /\ n2 >= 1
        THEN [matched |-> TRUE, g1 |-> SubSeq(rest, 1, n1), g2 |-> SubSeq(rest2, 1, n2)]
        ELSE MatchFrom(cwd, j + 1)

ConductorMatch(cwd) == MatchFrom(cwd, 1)

RECURSIVE StripTrailingSlashes(_)
StripTrailingSlashes(p) ==
    IF p # "" /\ Char(p, Len(p)) = "/" THEN StripTrailingSlashes(SubSeq(p, 1, Len(p) - 1))
    ELSE p

\* path.basename(cwd) (posix): what follows the last '/' once trailing '/' are dropped
Basename(cwd) ==
    LET p == StripTrailingSlashes(cwd)
        parts == Split(p, "/")
    IN  parts[Len(parts)]

\* conductorWorkspaces.get(projectName) on the snapshot ws, lines 112-118
TrackerLookup(ws, projectName) ==
    IF ~ws.isNull /\ projectName \in DOMAIN ws.map
    THEN [workspaceId |-> ws.map[projectName].id, workspaceState |-> ws.map[projectName].state]
    ELSE [workspaceId |-> Null, workspaceState |-> Null]

\* lines 100-122 for a non-empty cwd, with ws the value of conductorWorkspaces then
PathInfo(cwd, ws) ==
    LET m == ConductorMatch(cwd)
    IN  IF m.matched
        THEN [workspaceName |-> m.g1, projectName |-> m.g2] @@ TrackerLookup(ws, m.g2)
        ELSE [workspaceName |-> "", projectName |-> Basename(cwd),
              workspaceId |-> Null, workspaceState |-> Null]

\* lines 81-83, 101-102: the values the locals are declared with
NoPathInfo ==
    [workspaceName |-> "", projectName |-> "", workspaceId |-> Null, workspaceState |-> Null]

LastSegmentOf(s) == Split(s, "/")[Len(Split(s, "/"))]

\* a plausible slip: split('/').pop(), what follows the last '/'
BranchOf_LastSegment(branchOutput) ==
    LET branch == Trim(branchOutput)
    IN  IF Includes(branch, "/") THEN LastSegmentOf(branch) ELSE branch

\* lines 129-133: trim, then drop what precedes the first '/'
BranchOf(branchOutput) ==
    LET branch == Trim(branchOutput)
    IN  IF Includes(branch, "/") THEN Join(Tail(Split(branch, "/")), "/") ELSE branch

(***************************************************************************)
(* Enrichment Pipeline                                                     *)
(***************************************************************************)
\* a plausible slip: the default is not applied
OrDefault_Identity(v, d) == v

\* v || d
OrDefault(v, d) == IF v = "" THEN d ELSE v

CommandLimit == 20

\* command.substring(0, 20)
Truncate(command) ==
    IF Len(command) > CommandLimit THEN SubSeq(command, 1, CommandLimit) ELSE command

\* lines 139-150: the value stored under the key
MakeEntry(p, cwd, info, branch) ==
    [pid |-> p.pidNum,
     port |-> p.port,
     command |-> Truncate(p.command),
     cwd |-> cwd,
     project |-> OrDefault(info.projectName, "Unknown"),
     workspace |-> OrDefault(info.workspaceName, "-"),
     branch |-> OrDefault(branch, "-"),
     running |-> "localhost:" \o NumToString(p.port),
     workspaceId |-> info.workspaceId,
     workspaceState |-> info.workspaceState]

\* processes.has(key) on the Map, kept as the sequence of its [key, value] in insertion order
Has(processes, key) == \E i \in DOMAIN processes : processes[i].key = key

Values(processes) == [i \in DOMAIN processes |-> processes[i].value]

\* the place of e in a list sorted by (a, b) => a.port - b.port: after the entries
\* whose port is not greater (the sort is stable)
RECURSIVE InsertByPort(_, _)
InsertByPort(sorted, e) ==
    IF sorted = <<>> THEN <<e>>
    ELSE IF sorted[1].port.val - e.port.val <= 0
    THEN <<sorted[1]>> \o InsertByPort(Tail(sorted), e)
    ELSE <<e>> \o sorted

RECURSIVE SortFrom(_, _)
SortFrom(acc, entries) ==
    IF entries = <<>> THEN acc
    ELSE SortFrom(InsertByPort(acc, entries[1]), Tail(entries))

\* a plausible slip: the sort is left out
SortByPort_Unsorted(entries) == entries

\* .sort((a, b) => a.port - b.port)
SortByPort(entries) == SortFrom(<<>>, entries)

(***************************************************************************)
(* Process Terminator                                                      *)
(***************************************************************************)
KillCommand(pid) == "kill -9 " \o NumToString(pid)

\* the message of the error child_process.exec rejects with
ExecErrorMessage(cmd, stderr) == "Command failed: " \o cmd \o "\n" \o stderr

\* a plausible slip: the error reported is the command's stderr, which may be empty
KillResult_StderrOnly(pid, out) ==
    IF out.ok THEN [success |-> TRUE]
    ELSE [success |-> FALSE, error |-> out.stderr]

\* lines 162-167 once the command has ended
KillResult(pid, out) ==
    IF out.ok THEN [success |-> TRUE]
    ELSE [success |-> FALSE, error |-> ExecErrorMessage(KillCommand(pid), out.stderr)]

(***************************************************************************)
(* HTTP server: the request handler                                        *)
(***************************************************************************)
\* new URL(req.url, `http://localhost:${PORT}`).pathname for a request target that is
\* a path: "//host/path" names a host (none: the constructor throws), "?..." is the query
UrlParse(url) ==
    LET q == IndexFrom(url, "?", 1)
        noQuery == IF q = 0 THEN url ELSE SubSeq(url, 1, q - 1)
        afterSlashes == SubSeq(noQuery, 3, Len(noQuery))
        h == RunLen(afterSlashes, {"/"}, FALSE)
        path == SubSeq(afterSlashes, h + 1, Len(afterSlashes))
    IN  IF StartsWith(noQuery, "//")
        THEN IF h = 0 THEN [valid |-> FALSE, pathname |-> ""]
             ELSE [valid |-> TRUE, pathname |-> IF path = "" THEN "/" ELSE path]
        ELSE [valid |-> TRUE, pathname |-> noQuery]

\* url.pathname.split('/').pop()
LastSegment(pathname) == LastSegmentOf(pathname)

\* a plausible slip: the terminator's route does not test the method
Route_KillAnyMethod(method, pathname) ==
    IF method = "OPTIONS" THEN "options"
    ELSE IF pathname = "/api/processes" /\ method = "GET" THEN "processes"
    ELSE IF StartsWith(pathname, "/api/kill/") THEN "kill"
    ELSE IF pathname = "/" \/ pathname = "/index.html" THEN "html"
    ELSE "notFound"

\* lines 544-576: which branch of the handler a request takes
Route(method, pathname) ==
    IF method = "OPTIONS" THEN "options"
    ELSE IF pathname = "/api/processes" /\ method = "GET" THEN "processes"
    ELSE IF StartsWith(pathname, "/api/kill/") /\ method = "POST" THEN "kill"
    ELSE IF pathname = "/" \/ pathname = "/index.html" THEN "html"
    ELSE "notFound"

OptionsResponse == [status |-> 200, type |-> "", body |-> ""]

\* a plausible slip: an empty result is reported as a server error
ProcessesResponse_ErrorOnEmpty(result) ==
    [status |-> IF result = <<>> THEN 500 ELSE 200, type |-> "application/json", body |-> result]

\* lines 553-554: res.writeHead(200, json); res.end(JSON.stringify(processes))
ProcessesResponse(result) == [status |-> 200, type |-> "application/json", body |-> result]

\* lines 562-563
KillResponse(result) == [status |-> 200, type |-> "application/json", body |-> result]

HtmlResponse == [status |-> 200, type |-> "text/html", body |-> "<!DOCTYPE html>"]

NotFoundResponse == [status |-> 404, type |-> "", body |-> "Not Found"]

\* line 156: what the catch of getLocalhostProcesses returns
CatchResult == <<>>

(***************************************************************************)
(* State                                                                   *)
(***************************************************************************)
VARIABLES
    conductorWorkspaces,  \* line 17: the module-level cache, shared by all cycles
    alive,                \* the server process runs
    accepted,             \* the number of requests accepted so far
    pc,                   \* per connection: where its handler waits
    request,              \* per connection: [method, url]
    lines,                \* per cycle: the lines of the listing
    idx,                  \* per cycle: the line the loop is at
    processes,            \* per cycle: the Map, as [key, value] in insertion order
    local,                \* per cycle: cwd and the path info of the line being resolved
    response,             \* per connection: the responses written
    snapshot,             \* per cycle: the value its getConductorWorkspaces() returned
    calls,                \* per cycle or kill: the external commands ended, with outcomes
    signals               \* the kill commands run: [conn, pid]

vars == <<conductorWorkspaces, alive, accepted, pc, request, lines, idx, processes,
          local, response, snapshot, calls, signals>>

NumConns == 2

Conns == 1..NumConns

NoRequest == [method |-> "", url |-> ""]

NoLocal == [cwd |-> "", info |-> NoPathInfo]

Init ==
    /\ conductorWorkspaces = NullSnapshot
    /\ alive = TRUE
    /\ accepted = 0
    /\ pc = [r \in Conns |-> "idle"]
    /\ request = [r \in Conns |-> NoRequest]
    /\ lines = [r \in Conns |-> <<>>]
    /\ idx = [r \in Conns |-> 0]
    /\ processes = [r \in Conns |-> <<>>]
    /\ local = [r \in Conns |-> NoLocal]
    /\ response = [r \in Conns |-> <<>>]
    /\ snapshot = [r \in Conns |-> NullSnapshot]
    /\ calls = [r \in Conns |-> <<>>]
    /\ signals = <<>>

(***************************************************************************)
(* Steps of a handler: each runs from one await's completion to the next   *)
(***************************************************************************)
\* the first line at or after i that the loop does not skip, 0 when none is left
NextLine(ls, procs, i) ==
    LET todo == {j \in i..Len(ls) :
                    /\ ~ParseLine(ls[j]).skip
                    /\ ~Has(procs, ParseLine(ls[j]).key)}
    IN  IF todo = {} THEN 0 ELSE CHOOSE j \in todo : \A k \in todo : j <= k

\* the for loop from line i on: up to the next cwd query, or to the return of line 153
\* and the response of lines 553-554
Continue(r, procs, i) ==
    LET j == NextLine(lines'[r], procs, i)
    IN  /\ processes' = [processes EXCEPT ![r] = procs]
        /\ local' = [local EXCEPT ![r] = NoLocal]
        /\ IF j # 0
           THEN /\ idx' = [idx EXCEPT ![r] = j]
                /\ pc' = [pc EXCEPT ![r] = "cwd"]
                /\ UNCHANGED response
           ELSE /\ idx' = [idx EXCEPT ![r] = Len(lines'[r]) + 1]
                /\ pc' = [pc EXCEPT ![r] = "done"]
                /\ response' = [response EXCEPT
                                  ![r] = Append(@, ProcessesResponse(SortByPort(Values(procs))))]

\* processes.set(key, {...}) for the line at idx[r], then on with the loop
SetEntry(r, cwd, info, branch) ==
    LET p == ParseLine(lines[r][idx[r]])
    IN  Continue(r, Append(processes[r], [key |-> p.key, value |-> MakeEntry(p, cwd, info, branch)]),
                 idx[r] + 1)

\* the key of the line the loop is at, "" outside the loop
CurrentKey(r) ==
    IF idx[r] \in DOMAIN lines[r] THEN ParseLine(lines[r][idx[r]]).key ELSE ""

Log(r, cmd, out) ==
    calls' = [calls EXCEPT ![r] = Append(@, [cmd |-> cmd, key |-> CurrentKey(r), out |-> out])]

\* the handler up to its first await (lines 537-576)
Accept(r, req, maxAccepted) ==
    /\ alive
    /\ pc[r] \in {"idle", "done"}
    /\ accepted < maxAccepted
    /\ accepted' = accepted + 1
    /\ request' = [request EXCEPT ![r] = req]
    /\ lines' = [lines EXCEPT ![r] = <<>>]
    /\ idx' = [idx EXCEPT ![r] = 0]
    /\ processes' = [processes EXCEPT ![r] = <<>>]
    /\ local' = [local EXCEPT ![r] = NoLocal]
    /\ snapshot' = [snapshot EXCEPT ![r] = NullSnapshot]
    /\ calls' = [calls EXCEPT ![r] = <<>>]
    /\ UNCHANGED conductorWorkspaces
    /\ LET u == UrlParse(req.url)
           route == Route(req.method, u.pathname)
       IN  IF ~u.valid
           THEN \* the rejection of the async listener is unhandled: the process exits
                /\ alive' = FALSE
                /\ pc' = [pc EXCEPT ![r] = "crashed"]
                /\ response' = [response EXCEPT ![r] = <<>>]
                /\ UNCHANGED signals
           ELSE /\ alive' = TRUE
                /\ pc' = [pc EXCEPT ![r] =
                            CASE route = "processes" -> "tracker"
                              [] route = "kill" -> "kill"
                              [] OTHER -> "done"]
                /\ response' = [response EXCEPT ![r] =
                            CASE route = "options" -> <<OptionsResponse>>
                              [] route = "html" -> <<HtmlResponse>>
                              [] route = "notFound" -> <<NotFoundResponse>>
                              [] OTHER -> <<>>]
                /\ signals' = IF route = "kill"
                              THEN Append(signals, [conn |-> r, pid |-> ParseInt(LastSegment(u.pathname))])
                              ELSE signals

\* line 52: conductorWorkspaces = await getConductorWorkspaces(); then lsof is started
TrackerDone(r, db) ==
    /\ alive
    /\ pc[r] = "tracker"
    /\ conductorWorkspaces' = GetConductorWorkspaces(db)
    /\ snapshot' = [snapshot EXCEPT ![r] = GetConductorWorkspaces(db)]
    /\ Log(r, "tracker", db)
    /\ pc' = [pc EXCEPT ![r] = "lsof"]
    /\ UNCHANGED <<alive, accepted, request, lines, idx, processes, local, response, signals>>

\* lines 55-77, or the catch of lines 154-157 when the command fails
LsofDone(r, out) ==
    /\ alive
    /\ pc[r] = "lsof"
    /\ Log(r, "lsof", out)
    /\ UNCHANGED <<conductorWorkspaces, alive, accepted, request, snapshot, signals>>
    /\ IF out.ok
       THEN /\ lines' = [lines EXCEPT ![r] = LinesOf(out.stdout)]
            /\ Continue(r, <<>>, 1)
       ELSE /\ pc' = [pc EXCEPT ![r] = "done"]
            /\ response' = [response EXCEPT ![r] = Append(@, ProcessesResponse(CatchResult))]
            /\ UNCHANGED <<lines, idx, processes, local>>

\* lines 100-137 once cwd is known: the entry at once when cwd is empty, else the
\* path info (reading conductorWorkspaces as it is now) and the branch query
AfterCwd(r, cwd) ==
    IF cwd = ""
    THEN /\ UNCHANGED lines
         /\ SetEntry(r, "", NoPathInfo, "")
    ELSE /\ local' = [local EXCEPT ![r] = [cwd |-> cwd, info |-> PathInfo(cwd, conductorWorkspaces)]]
         /\ pc' = [pc EXCEPT ![r] = "git"]
         /\ UNCHANGED <<lines, idx, processes, response>>

\* a plausible slip: no inner try, so a failed query reaches the catch of lines 154-157
CwdDone_Abort(r, out) ==
    /\ alive
    /\ pc[r] = "cwd"
    /\ Log(r, "cwd", out)
    /\ UNCHANGED <<conductorWorkspaces, alive, accepted, request, snapshot, signals>>
    /\ IF ~out.ok
       THEN /\ pc' = [pc EXCEPT ![r] = "done"]
            /\ response' = [response EXCEPT ![r] = Append(@, ProcessesResponse(CatchResult))]
            /\ UNCHANGED <<lines, idx, processes, local>>
       ELSE IF PrimaryCwd(out.stdout) = ""
       THEN /\ pc' = [pc EXCEPT ![r] = "pwd"]
            /\ UNCHANGED <<lines, idx, processes, local, response>>
       ELSE AfterCwd(r, PrimaryCwd(out.stdout))

\* lines 86-98: the primary query ended
CwdDone(r, out) ==
    /\ alive
    /\ pc[r] = "cwd"
    /\ Log(r, "cwd", out)
    /\ UNCHANGED <<conductorWorkspaces, alive, accepted, request, snapshot, signals>>
    /\ IF ~out.ok
       THEN AfterCwd(r, "")
       ELSE IF PrimaryCwd(out.stdout) = ""
       THEN /\ pc' = [pc EXCEPT ![r] = "pwd"]
            /\ UNCHANGED <<lines, idx, processes, local, response>>
       ELSE AfterCwd(r, PrimaryCwd(out.stdout))

\* lines 93-98: the fallback query ended
PwdDone(r, out) ==
    /\ alive
    /\ pc[r] = "pwd"
    /\ Log(r, "pwd", out)
    /\ UNCHANGED <<conductorWorkspaces, alive, accepted, request, snapshot, signals>>
    /\ AfterCwd(r, IF out.ok THEN FallbackCwd(out.stdout) ELSE "")

\* lines 126-150: the branch query ended
GitDone(r, out) ==
    /\ alive
    /\ pc[r] = "git"
    /\ Log(r, "git", out)
    /\ UNCHANGED <<conductorWorkspaces, alive, accepted, request, snapshot, signals, lines>>
    /\ SetEntry(r, local[r].cwd, local[r].info, IF out.ok THEN BranchOf(out.stdout) ELSE "")

\* lines 161-167 and 562-563: the kill command ended
KillDone(r, out) ==
    /\ alive
    /\ pc[r] = "kill"
    \* kill(1) rejects an argument that is not a number: `kill -9 NaN` always fails
    /\ ParseInt(LastSegment(UrlParse(request[r].url).pathname)).nan => ~out.ok
    /\ Log(r, "kill", out)
    /\ pc' = [pc EXCEPT ![r] = "done"]
    /\ response' = [response EXCEPT ![r] =
            Append(@, KillResponse(KillResult(ParseInt(LastSegment(UrlParse(request[r].url).pathname)), out)))]
    /\ UNCHANGED <<conductorWorkspaces, alive, accepted, request, lines, idx, processes,
                   local, snapshot, signals>>

(***************************************************************************)
(* What the environment may answer                                         *)
(***************************************************************************)
Ok(stdout) == [ok |-> TRUE, stdout |-> stdout]

Failed == [ok |-> FALSE, stdout |-> ""]

Row(id, dir, state) == [id |-> id, directory_name |-> dir, state |-> state]

DbAbsent == [exists |-> FALSE, ok |-> FALSE, kind |-> "", rows |-> <<>>]

DbQueryFails == [exists |-> TRUE, ok |-> FALSE, kind |-> "", rows |-> <<>>]

DbBlank == [exists |-> TRUE, ok |-> TRUE, kind |-> "blank", rows |-> <<>>]

DbMalformed == [exists |-> TRUE, ok |-> TRUE, kind |-> "malformed", rows |-> <<>>]

DbRows(rows) == [exists |-> TRUE, ok |-> TRUE, kind |-> "rows", rows |-> rows]

LineNode == "node 100 w 22u IPv4 0x1 0t0 TCP *:3000 (LISTEN)"

LineVite == "a-very-long-command-name 200 w 9u IPv4 0x2 0t0 TCP 127.0.0.1:8080 (LISTEN)"

LineNode2 == "node 100 w 24u IPv6 0x3 0t0 TCP [::1]:80 (LISTEN)"

LineShort == "node 300 w *:5000"

LineNoPort == "node 400 w 22u IPv4 0x4 0t0 TCP *:* (LISTEN)"

ConductorDir == "/Users/x/conductor/workspaces/ws-1/myapp"

\* the server: concurrent connections, every route, a small world
Requests ==
    { [method |-> "GET", url |-> "/api/processes"],
      [method |-> "POST", url |-> "/api/processes"],
      [method |-> "POST", url |-> "/api/kill/42"],
      [method |-> "POST", url |-> "/api/kill/abc"],
      [method |-> "GET", url |-> "/api/kill/42"],
      [method |-> "OPTIONS", url |-> "/api/kill/42"],
      [method |-> "GET", url |-> "/"],
      [method |-> "GET", url |-> "/index.html"],
      [method |-> "GET", url |-> "/nope"],
      [method |-> "GET", url |-> "//"] }

MaxRequests == 3

TrackerAnswers ==
    { DbAbsent,
      DbRows(<<Row("id-1", "myapp", "active")>>),
      DbRows(<<Row("id-2", "myapp", "initializing")>>) }

LsofAnswers == { Failed, Ok(LineShort \o "\n" \o LineNode \o "\n") }

CwdAnswers == { Failed, Ok("") }

PwdAnswers == { Failed, Ok(ConductorDir \o "\n") }

GitAnswers == { Failed, Ok("wes/feature\n") }

KillAnswers == { [ok |-> TRUE, stderr |-> ""],
                 [ok |-> FALSE, stderr |-> "/bin/sh: kill: (42) - No such process\n"],
                 [ok |-> FALSE, stderr |-> ""] }

Next ==
    \/ \E r \in Conns, req \in Requests : Accept(r, req, MaxRequests)
    \/ \E r \in Conns, db \in TrackerAnswers : TrackerDone(r, db)
    \/ \E r \in Conns, out \in LsofAnswers : LsofDone(r, out)
    \/ \E r \in Conns, out \in CwdAnswers : CwdDone(r, out)
    \/ \E r \in Conns, out \in PwdAnswers : PwdDone(r, out)
    \/ \E r \in Conns, out \in GitAnswers : GitDone(r, out)
    \/ \E r \in Conns, out \in KillAnswers : KillDone(r, out)

Spec == Init /\ [][Next]_vars

(***************************************************************************)
(* One enumeration cycle over listings of several lines                    *)
(***************************************************************************)
MaxLines == 3

LineKinds == {LineNode, LineVite, LineNode2, LineNoPort}

\* every listing of at most MaxLines lines, in every order, each line ended by "\n"
Listings ==
    {Join(ls, "\n") \o "\n" : ls \in UNION {[1..n -> LineKinds] : n \in 0..MaxLines}}

GetProcesses == [method |-> "GET", url |-> "/api/processes"]

\* connection 1 has accepted GET /api/processes; no other request comes
CycleInit ==
    /\ conductorWorkspaces = NullSnapshot
    /\ alive = TRUE
    /\ accepted = MaxRequests
    /\ pc = [r \in Conns |-> IF r = 1 THEN "tracker" ELSE "idle"]
    /\ request = [r \in Conns |-> IF r = 1 THEN GetProcesses ELSE NoRequest]
    /\ lines = [r \in Conns |-> <<>>]
    /\ idx = [r \in Conns |-> 0]
    /\ processes = [r \in Conns |-> <<>>]
    /\ local = [r \in Conns |-> NoLocal]
    /\ response = [r \in Conns |-> <<>>]
    /\ snapshot = [r \in Conns |-> NullSnapshot]
    /\ calls = [r \in Conns |-> <<>>]
    /\ signals = <<>>

CycleTrackerAnswers ==
    { DbRows(<<Row("id-1", "myapp", "active"), Row("id-2", "myapp", "initializing")>>) }

CycleLsofAnswers == {Failed} \cup {Ok(l) : l \in Listings}

CycleCwdAnswers == { Failed, Ok("") }

CyclePwdAnswers == { Failed, Ok(ConductorDir \o "/src\n"), Ok("/\n") }

CycleGitAnswers == { Failed, Ok("wes/feature\n") }

CycleNext ==
    \/ pc[1] = "tracker" /\ \E db \in CycleTrackerAnswers : TrackerDone(1, db)
    \/ pc[1] = "lsof" /\ \E out \in CycleLsofAnswers : LsofDone(1, out)
    \/ pc[1] = "cwd" /\ \E out \in CycleCwdAnswers : CwdDone(1, out)
    \/ pc[1] = "pwd" /\ \E out \in CyclePwdAnswers : PwdDone(1, out)
    \/ pc[1] = "git" /\ \E out \in CycleGitAnswers : GitDone(1, out)

CycleSpec == CycleInit /\ [][CycleNext]_vars

(***************************************************************************)
(* One process, over many working directories                              *)
(***************************************************************************)
MaxSegs == 5

Segments == {"conductor", "workspaces", "a", "b", ""}

\* every absolute path of at most MaxSegs segments
Paths == {"/" \o Join(segs, "/") : segs \in UNION {[1..n -> Segments] : n \in 1..MaxSegs}}

PathTrackerAnswers == { DbRows(<<Row("id-1", "b", "active")>>) }

PathLsofAnswers == { Ok(LineNode \o "\n") }

PathCwdAnswers == { Ok(""), Ok("n/tmp/cwd\n"), Ok("n/a/conductor/workspaces/cwd/a/b\n") }

PathPwdAnswers == {Ok(p \o "\n") : p \in Paths}

PathGitAnswers == { Ok("main\n") }

PathNext ==
    \/ pc[1] = "tracker" /\ \E db \in PathTrackerAnswers : TrackerDone(1, db)
    \/ pc[1] = "lsof" /\ \E out \in PathLsofAnswers : LsofDone(1, out)
    \/ pc[1] = "cwd" /\ \E out \in PathCwdAnswers : CwdDone(1, out)
    \/ pc[1] = "pwd" /\ \E out \in PathPwdAnswers : PwdDone(1, out)
    \/ pc[1] = "git" /\ \E out \in PathGitAnswers : GitDone(1, out)

PathSpec == CycleInit /\ [][PathNext]_vars

(***************************************************************************)
(* One process, over many branch names                                     *)
(***************************************************************************)
MaxBranchLen == 4

BranchChars == {"a", "b", "/"}

\* every string of at most MaxBranchLen of these characters, and the documented examples
Branches ==
    {Join(cs, "") : cs \in UNION {[1..n -> BranchChars] : n \in 1..MaxBranchLen}}
        \cup {"alice/feature-x", "alice/feat/sub", "main"}

BranchTrackerAnswers == { DbAbsent, DbQueryFails, DbBlank, DbMalformed }

BranchCwdAnswers == { Ok("") }

BranchPwdAnswers == { Ok("/srv/app\n") }

BranchGitAnswers == {Failed, Ok("")} \cup {Ok(b \o "\n") : b \in Branches}

BranchNext ==
    \/ pc[1] = "tracker" /\ \E db \in BranchTrackerAnswers : TrackerDone(1, db)
    \/ pc[1] = "lsof" /\ \E out \in PathLsofAnswers : LsofDone(1, out)
    \/ pc[1] = "cwd" /\ \E out \in BranchCwdAnswers : CwdDone(1, out)
    \/ pc[1] = "pwd" /\ \E out \in BranchPwdAnswers : PwdDone(1, out)
    \/ pc[1] = "git" /\ \E out \in BranchGitAnswers : GitDone(1, out)

BranchSpec == CycleInit /\ [][BranchNext]_vars

(***************************************************************************)
(* Terminations only, over many pid segments                               *)
(***************************************************************************)
KillRequests ==
    {[method |-> "POST", url |-> "/api/kill/" \o seg] : seg \in {"42", "abc", "", "12abc", "-1"}}

\* one connection, its requests one after the other
KillNext ==
    \/ \E req \in KillRequests : Accept(1, req, MaxRequests)
    \/ pc[1] = "kill" /\ \E out \in KillAnswers : KillDone(1, out)

KillSpec == Init /\ [][KillNext]_vars

(***************************************************************************)
(* Routing, over many methods and request targets                          *)
(***************************************************************************)
Methods == {"GET", "POST", "OPTIONS"}

Targets ==
    { "/", "/index.html", "/api/processes", "/api/processes/", "/api/kill",
      "/api/kill/", "/api/kill/42", "/api/kill/42?force=1", "/api/kill/x/42",
      "/kill/42", "/nope", "//" }

RouteRequests == {[method |-> m, url |-> t] : m \in Methods, t \in Targets}

RouteCwdAnswers == { Ok("") }

RoutePwdAnswers == { Ok("/srv/app\n") }

RouteGitAnswers == { Ok("main\n") }

\* one connection, its requests one after the other
RouteNext ==
    \/ \E req \in RouteRequests : Accept(1, req, MaxRequests)
    \/ pc[1] = "tracker" /\ \E db \in PathTrackerAnswers : TrackerDone(1, db)
    \/ pc[1] = "lsof" /\ \E out \in LsofAnswers : LsofDone(1, out)
    \/ pc[1] = "cwd" /\ \E out \in RouteCwdAnswers : CwdDone(1, out)
    \/ pc[1] = "pwd" /\ \E out \in RoutePwdAnswers : PwdDone(1, out)
    \/ pc[1] = "git" /\ \E out \in RouteGitAnswers : GitDone(1, out)
    \/ pc[1] = "kill" /\ \E out \in KillAnswers : KillDone(1, out)

RouteSpec == Init /\ [][RouteNext]_vars

(***************************************************************************)
(* Properties                                                              *)
(***************************************************************************)
RouteOf(r) == Route(request[r].method, UrlParse(request[r].url).pathname)

\* connection r runs or has run an enumeration cycle
IsCycle(r) == pc[r] \notin {"idle", "crashed"} /\ RouteOf(r) = "processes"

IsKill(r) == pc[r] \notin {"idle", "crashed"} /\ RouteOf(r) = "kill"

\* the outcomes logged for command cmd in r's cycle, and those for the line with key k
Outcomes(r, cmd) == {calls[r][i].out : i \in {j \in DOMAIN calls[r] : calls[r][j].cmd = cmd}}

OutcomesFor(r, cmd, k) ==
    {calls[r][i].out : i \in {j \in DOMAIN calls[r] : calls[r][j].cmd = cmd /\ calls[r][j].key = k}}

LsofFailed(r) == \E out \in Outcomes(r, "lsof") : ~out.ok

\* the cycle of r ran to its return of line 153
Completed(r) == IsCycle(r) /\ pc[r] = "done" /\ ~LsofFailed(r)

Entries(r) == {processes[r][i].value : i \in DOMAIN processes[r]}

TrackerOf(e) == [workspaceId |-> e.workspaceId, workspaceState |-> e.workspaceState]

NoTracker == [workspaceId |-> Null, workspaceState |-> Null]

\* C3: every entry of a cycle carries the tracker id/state that the cycle's own
\* snapshot gives for it, whatever other cycles capture meanwhile.
C3_EntriesResolvedAgainstOwnSnapshot ==
    \A r \in Conns : IsCycle(r) =>
        \A e \in Entries(r) :
            TrackerOf(e) = IF ConductorMatch(e.cwd).matched
                           THEN TrackerLookup(snapshot[r], ConductorMatch(e.cwd).g2)
                           ELSE NoTracker

IsArray(body) == DOMAIN body = 1..Len(body)

\* C4: GET /api/processes is answered 200 with a JSON array, once, and with the empty
\* array when the socket enumeration command failed.
C4_ProcessesAlways200Array ==
    \A r \in Conns : IsCycle(r) =>
        /\ \A i \in DOMAIN response[r] :
                /\ response[r][i].status = 200
                /\ response[r][i].type = "application/json"
                /\ IsArray(response[r][i].body)
        /\ pc[r] = "done" => Len(response[r]) = 1
        /\ pc[r] = "done" /\ LsofFailed(r) => response[r][1].body = <<>>

\* the socket enumeration failed after the tracker query had succeeded
C4_Witness ==
    \E r \in Conns : IsCycle(r) /\ pc[r] = "done" /\ LsofFailed(r)
        /\ ~snapshot[r].isNull
        /\ Len(response[r]) = 1
        /\ response[r][1].status = 200
        /\ response[r][1].body = <<>>

\* C6: POST /api/kill/{pid} is answered 200 with a boolean success; a kill command that
\* failed, as it always does for an unparsable pid, gives success false and a non-empty error.
C6_KillAlways200 ==
    \A r \in Conns : IsKill(r) =>
        /\ \A i \in DOMAIN response[r] :
                /\ response[r][i].status = 200
                /\ response[r][i].body.success \in BOOLEAN
        /\ pc[r] = "done" => Len(response[r]) = 1
        /\ pc[r] = "done" /\ (\E out \in Outcomes(r, "kill") : ~out.ok) =>
                /\ response[r][1].body.success = FALSE
                /\ Len(response[r][1].body.error) > 0
        /\ pc[r] = "done" /\ ParseInt(LastSegment(UrlParse(request[r].url).pathname)).nan =>
                response[r][1].body.success = FALSE

C6_Witness ==
    \E r \in Conns : IsKill(r) /\ pc[r] = "done"
        /\ request[r].url = "/api/kill/abc"
        /\ response[r][1].body.success = FALSE
        /\ Outcomes(r, "kill") = {[ok |-> FALSE, stderr |-> ""]}

\* C7: a cycle whose snapshot was null (store absent, query failed) returns every
\* discovered process, each with null tracker id and state.
C7_NullSnapshotGivesNullTracker ==
    \A r \in Conns : Completed(r) /\ snapshot[r].isNull =>
        /\ \A e \in Entries(r) : TrackerOf(e) = NoTracker
        /\ Len(response[r][1].body) = Len(processes[r])

\* the listing the socket enumeration of r's cycle printed, line by line
RawLines(r) ==
    UNION {LET ls == Split(out.stdout, "\n") IN {ls[i] : i \in DOMAIN ls} :
              out \in Outcomes(r, "lsof")}

\* the (pid, port) pairs of the lines of that listing that parse
ParsablePairs(r) ==
    {<<p.pidNum, p.port>> : p \in {ParseLine(l) : l \in RawLines(r)} \ {[skip |-> TRUE]}}

Result(r) == response[r][1].body

PairAt(list, i) == <<list[i].pid, list[i].port>>

\* C1: the list a cycle returns holds every parsable (pid, port) pair of the listing
\* exactly once, and nothing else.
C1_EachPairExactlyOnce ==
    \A r \in Conns : Completed(r) =>
        LET pairs == ParsablePairs(r)
            result == Result(r)
        IN  /\ \A pair \in pairs :
                    Cardinality({i \in DOMAIN result : PairAt(result, i) = pair}) = 1
            /\ \A i \in DOMAIN result : PairAt(result, i) \in pairs

\* a listing of three parsable lines, two of them the same socket pair, and a second
\* port of the same pid
C1_Witness ==
    \E r \in Conns : Completed(r)
        /\ Len(lines[r]) = 3
        /\ Cardinality(ParsablePairs(r)) = 2
        /\ \A l \in RawLines(r) : l # "" => ~ParseLine(l).skip
        /\ Len(Result(r)) = 2
        /\ Result(r)[1].pid = Result(r)[2].pid

\* C2: the list a cycle returns is sorted non-decreasing by port, in whatever order the
\* listing gave its lines.
C2_SortedByPort ==
    \A r \in Conns : Completed(r) =>
        \A i, j \in DOMAIN Result(r) : i < j => Result(r)[i].port.val <= Result(r)[j].port.val

\* the listing gave three sockets in descending port order
C2_Witness ==
    \E r \in Conns : Completed(r)
        /\ Len(Result(r)) = 3
        /\ \A i, j \in DOMAIN processes[r] :
                i < j => processes[r][i].value.port.val > processes[r][j].value.port.val

\* the entry a cycle made for key k
EntryFor(r, k) == (CHOOSE i \in DOMAIN processes[r] : processes[r][i].key = k)

WdLookupFailed(r, k) ==
    \E out \in OutcomesFor(r, "cwd", k) \cup OutcomesFor(r, "pwd", k) : ~out.ok

BranchLookupFailed(r, k) == \E out \in OutcomesFor(r, "git", k) : ~out.ok

Keys(r) == {processes[r][i].key : i \in DOMAIN processes[r]}

\* what was looked up for key k, in order
LookupsFor(r, k) ==
    LET RECURSIVE Pick(_)
        Pick(cs) == IF cs = <<>> THEN <<>>
                    ELSE (IF cs[1].key = k THEN <<[cmd |-> cs[1].cmd, out |-> cs[1].out]>> ELSE <<>>)
                         \o Pick(Tail(cs))
    IN  Pick(calls[r])

Derived(e) ==
    [cwd |-> e.cwd, project |-> e.project, workspace |-> e.workspace, branch |-> e.branch]

\* C5: a process whose working-directory lookup failed is still in the result, with the
\* sentinel fields; one whose branch lookup failed has branch "-"; every parsable pair is
\* in the result whatever lookups failed; and what an entry says is decided by the
\* lookups of its own process alone.
C5_PartialFailureKeepsEntries ==
    \A r \in Conns : Completed(r) =>
        /\ LET result == Result(r)
           IN  \A pair \in ParsablePairs(r) : \E i \in DOMAIN result : PairAt(result, i) = pair
        /\ \A k \in Keys(r) :
            LET e == processes[r][EntryFor(r, k)].value
            IN  /\ \E i \in DOMAIN Result(r) : Result(r)[i] = e
                /\ WdLookupFailed(r, k) =>
                      /\ Derived(e) = [cwd |-> "", project |-> "Unknown", workspace |-> "-", branch |-> "-"]
                      /\ TrackerOf(e) = NoTracker
                /\ BranchLookupFailed(r, k) => e.branch = "-"
        /\ \A k1, k2 \in Keys(r) :
                LookupsFor(r, k1) = LookupsFor(r, k2) =>
                    Derived(processes[r][EntryFor(r, k1)].value)
                        = Derived(processes[r][EntryFor(r, k2)].value)

\* three processes: the lookup of the second failed, the first and the third were
\* answered alike and are enriched alike
C5_Witness ==
    \E r \in Conns : Completed(r)
        /\ Len(processes[r]) = 3
        /\ WdLookupFailed(r, processes[r][2].key)
        /\ processes[r][2].value.project = "Unknown"
        /\ LookupsFor(r, processes[r][1].key) = LookupsFor(r, processes[r][3].key)
        /\ processes[r][1].value.project = "myapp"
        /\ processes[r][3].value.branch = "feature"

\* what lines 100-136 resolve for an entry before the defaults of lines 144-146 apply
ResolvedNames(r, e) ==
    IF e.cwd = "" THEN [project |-> "", workspace |-> "", branch |-> ""]
    ELSE [project |-> IF ConductorMatch(e.cwd).matched THEN ConductorMatch(e.cwd).g2
                      ELSE Basename(e.cwd),
          workspace |-> IF ConductorMatch(e.cwd).matched THEN ConductorMatch(e.cwd).g1 ELSE "",
          branch |-> IF \E out \in OutcomesFor(r, "git", KeyOf(e.pid, e.port)) : out.ok
                     THEN BranchOf((CHOOSE out \in OutcomesFor(r, "git", KeyOf(e.pid, e.port)) : out.ok).stdout)
                     ELSE ""]

\* C8: project, workspace and branch of every entry are non-empty: an empty resolved
\* value shows as "Unknown", "-" and "-", a non-empty one as it is.
C8_SentinelsForEmpty ==
    \A r \in Conns : IsCycle(r) =>
        \A e \in Entries(r) :
            LET n == ResolvedNames(r, e)
            IN  /\ e.project # "" /\ e.workspace # "" /\ e.branch # ""
                /\ e.project = IF n.project = "" THEN "Unknown" ELSE n.project
                /\ e.workspace = IF n.workspace = "" THEN "-" ELSE n.workspace
                /\ e.branch = IF n.branch = "" THEN "-" ELSE n.branch

\* one cycle with an entry whose three values all resolved empty though its working
\* directory is known ("/"), and an entry whose three values all resolved non-empty
C8_Witness ==
    \E r \in Conns : Completed(r)
        /\ \E e \in Entries(r) :
              e.cwd = "/" /\ Derived(e) = [cwd |-> "/", project |-> "Unknown", workspace |-> "-", branch |-> "-"]
        /\ \E f \in Entries(r) :
              /\ f.project = "myapp" /\ f.workspace = "ws-1" /\ f.branch = "feature"

\* the segments of a path: what stands between its '/'
SegmentsOf(path) == Split(path, "/")

\* the places of a path, given as its segments, where a preceding '/', a namespace
\* segment of nss and the segment "workspaces" are followed by two non-empty segments
ShapeAt(segs, nss) ==
    {i \in 2..(Len(segs) - 3) :
        /\ segs[i] \in nss
        /\ segs[i + 1] = "workspaces"
        /\ segs[i + 2] # ""
        /\ segs[i + 3] # ""}

Least(S) == CHOOSE i \in S : \A j \in S : i <= j

\* the last non-empty segment, "" when there is none
FinalComponent(segs) ==
    LET ne == {i \in DOMAIN segs : segs[i] # ""}
    IN  IF ne = {} THEN "" ELSE segs[CHOOSE i \in ne : \A j \in ne : j <= i]

\* workspace and project as the shape gives them for the namespace segments nss
ShapeNames(segs, nss) ==
    LET shapes == ShapeAt(segs, nss)
        i == Least(shapes)
        final == FinalComponent(segs)
    IN  IF shapes # {}
        THEN [workspace |-> segs[i + 2], project |-> segs[i + 3]]
        ELSE [workspace |-> "-", project |-> IF final = "" THEN "Unknown" ELSE final]

\* C9 as stated: whatever the namespace segment, .../<ns>/workspaces/W/P/... gives
\* workspace W and project P (the leftmost such place, should there be several); any
\* other working directory gives its final component ("Unknown" when it has none) and "-".
C9_AnyNamespace ==
    \A r \in Conns : IsCycle(r) =>
        \A e \in Entries(r) : e.cwd # "" =>
            [workspace |-> e.workspace, project |-> e.project]
                = ShapeNames(SegmentsOf(e.cwd), Segments \ {""})

\* C9 amended: the namespace segment is "conductor", the leftmost such place decides,
\* and a working directory without a final component ("/") gives project "Unknown".
C9_ConductorNamespace ==
    \A r \in Conns : IsCycle(r) =>
        \A e \in Entries(r) : e.cwd # "" =>
            [workspace |-> e.workspace, project |-> e.project]
                = ShapeNames(SegmentsOf(e.cwd), {"conductor"})

\* a directory under the conductor tree with a leading and a trailing segment
C9_Witness ==
    \E r \in Conns : Completed(r) /\ \E e \in Entries(r) :
        /\ e.cwd = "/conductor/workspaces/a/b/a"
        /\ e.workspace = "a" /\ e.project = "b"

\* what follows the first '/' of b, b itself when it has none
AfterFirstSlash(b) ==
    LET at == {k \in 1..Len(b) : Char(b, k) = "/"}
    IN  IF at = {} THEN b ELSE SubSeq(b, Least(at) + 1, Len(b))

\* C10: the branch of an entry is what follows the first '/' of the resolved branch
\* name, the name itself when it has no '/', and "-" when that is empty.
C10_BranchAfterFirstSlash ==
    \A r \in Conns : IsCycle(r) =>
        \A e \in Entries(r) :
            \A out \in OutcomesFor(r, "git", KeyOf(e.pid, e.port)) : out.ok =>
                /\ e.branch # ""
                /\ e.branch = IF AfterFirstSlash(Trim(out.stdout)) = "" THEN "-"
                              ELSE AfterFirstSlash(Trim(out.stdout))

C10_Witness ==
    \E r \in Conns : Completed(r) /\ \E e \in Entries(r) :
        /\ Outcomes(r, "git") = {Ok("alice/feat/sub\n")}
        /\ e.branch = "feat/sub"

\* the positions at which a handler waits for an external command
Awaiting == {"tracker", "lsof", "cwd", "pwd", "git", "kill"}

\* C11: the server never stops, and every accepted request is either waiting for an
\* external command with nothing written yet or has been answered exactly once.
C11_EveryRequestAnsweredOnce ==
    /\ alive
    /\ \A r \in Conns :
        \/ pc[r] = "idle" /\ response[r] = <<>>
        \/ pc[r] \in Awaiting /\ response[r] = <<>>
        \/ pc[r] = "done" /\ Len(response[r]) = 1

\* the path of a request target: what precedes its query
PathOf(url) ==
    IF IndexFrom(url, "?", 1) = 0 THEN url ELSE SubSeq(url, 1, IndexFrom(url, "?", 1) - 1)

\* the path is /api/kill/{pid}: one segment, whatever it holds, after the prefix
IsKillPath(p) ==
    /\ StartsWith(p, "/api/kill/")
    /\ ~Includes(SubSeq(p, Len("/api/kill/") + 1, Len(p)), "/")

IsKnownPath(p) == p \in {"/api/processes", "/", "/index.html"} \/ IsKillPath(p)

\* C12: a non-OPTIONS request whose path is none of /api/processes, /api/kill/{pid},
\* / and /index.html is answered 404 at once, with no external command run for it.
C12_UnknownPathIs404 ==
    \A r \in Conns :
        pc[r] # "idle" /\ request[r].method # "OPTIONS" /\ ~IsKnownPath(PathOf(request[r].url)) =>
            /\ pc[r] = "done"
            /\ calls[r] = <<>>
            /\ Len(response[r]) = 1
            /\ response[r][1].status = 404

\* the query answered out gave no working directory
PrimaryYieldsNothing(out) == ~out.ok \/ PrimaryCwd(out.stdout) = ""

FallbackYieldsNothing(out) == ~out.ok \/ FallbackCwd(out.stdout) = ""

\* C13: once the primary query of a process has given no working directory, failed
\* or not, the fallback query is issued for it; an entry has the empty working
\* directory only when both gave nothing, and then it has the default fields and no
\* branch query was issued for it.
C13_FallbackWheneverPrimaryYieldsNothing ==
    \A r \in Conns : IsCycle(r) =>
        /\ \A i \in DOMAIN calls[r] :
                calls[r][i].cmd = "cwd" /\ PrimaryYieldsNothing(calls[r][i].out) =>
                    \/ pc[r] = "pwd" /\ CurrentKey(r) = calls[r][i].key
                    \/ OutcomesFor(r, "pwd", calls[r][i].key) # {}
        /\ \A e \in Entries(r) : e.cwd = "" =>
                /\ \A out \in OutcomesFor(r, "cwd", KeyOf(e.pid, e.port)) : PrimaryYieldsNothing(out)
                /\ \A out \in OutcomesFor(r, "pwd", KeyOf(e.pid, e.port)) : FallbackYieldsNothing(out)
                /\ OutcomesFor(r, "git", KeyOf(e.pid, e.port)) = {}
                /\ e.project = "Unknown" /\ e.workspace = "-" /\ e.branch = "-"
                /\ TrackerOf(e) = NoTracker

\* the snapshot of cycle r holds a record for the project of e, whose working
\* directory matched the workspace path pattern
HasRecord(r, e) ==
    /\ ConductorMatch(e.cwd).matched
    /\ ~snapshot[r].isNull
    /\ e.project \in DOMAIN snapshot[r].map

\* C14: an entry carries the id and state of the record that its cycle's snapshot
\* holds under its project name when its working directory matched the pattern and
\* there is such a record; in every other case both are null.
C14_TrackerFieldsFromOwnRecord ==
    \A r \in Conns : IsCycle(r) =>
        \A e \in Entries(r) :
            IF HasRecord(r, e)
            THEN /\ e.workspaceId = snapshot[r].map[e.project].id
                 /\ e.workspaceState = snapshot[r].map[e.project].state
            ELSE e.workspaceId = Null /\ e.workspaceState = Null

\* a POST request whose path starts with /api/kill/
IsPostKill(req) == req.method = "POST" /\ StartsWith(PathOf(req.url), "/api/kill/")

\* this step is the acceptance of a request on connection r, whose slot it changes
Acceptor(r) ==
    /\ accepted' = accepted + 1
    /\ <<pc[r], request[r], response[r], calls[r]>> # <<pc'[r], request'[r], response'[r], calls'[r]>>

\* C15: the step that accepts a POST request under /api/kill/ sends one termination
\* signal, to the pid parsed from the last segment of its path; no other step (the
\* acceptance of any other request, a step of an enumeration cycle, the end of a
\* kill command) sends any.
C15_SignalOnlyForPostKill ==
    [][ IF \E r \in Conns : Acceptor(r) /\ IsPostKill(request'[r])
        THEN \E r \in Conns :
                /\ Acceptor(r) /\ IsPostKill(request'[r])
                /\ signals' = Append(signals,
                        [conn |-> r, pid |-> ParseInt(LastSegmentOf(PathOf(request'[r].url)))])
        ELSE signals' = signals ]_vars

\* three requests were served, only the last of them a POST under /api/kill/
C15_Witness ==
    /\ accepted = MaxRequests
    /\ request[1] = [method |-> "POST", url |-> "/api/kill/x/42"]
    /\ pc[1] = "done"
    /\ signals = <<[conn |-> 1, pid |-> Num(42)]>>

=============================================================================
